---- MODULE Spec2Model ----
(***************************************************************************)
(* Model of the traffic-incident RAG demo: the RAGInferencePipeline        *)
(* (constructor, add_documents, query), the LLMHandler behind it           *)
(* (generate_response with its tenacity retry policy, is_configured),      *)
(* the ingestion script (ingest_pdfs.main) and the PDF renderer            *)
(* (create_incident_pdfs).                                                 *)
(*                                                                         *)
(* Texts (documents, queries, prompts) are sequences of tokens; Python's   *)
(* None is the value None below; external services (chromadb, the encoder, *)
(* the LLM providers, the file system) answer nondeterministically.        *)
(***************************************************************************)
EXTENDS Integers, Sequences, FiniteSets, TLC

VARIABLES
  \* ---- RAGInferencePipeline object (rag_inference.py) ----
  client,             \* self.client
  collection,         \* self.collection
  encoder,            \* self.encoder
  llm_handler,        \* self.llm_handler
  store,              \* records held by the chroma collection, in insertion order
  pipeline,           \* "unbound" | "bound" (constructor returned) | "failed" (constructor raised)
  op,                 \* pipeline operation running or last run: "none" | "init" | "add" | "query"
  pc,                 \* position inside op
  llm_provider,       \* self.llm_provider (constructor argument)
  add_args,           \* arguments of the running add_documents call
  query_text,         \* arguments of the running query call
  top_k,
  query_embedding,    \* local of query
  formatted_results,  \* local of query
  llm_response,       \* local of query
  configured,         \* what the "if ... is_configured()" test of query found
  response,           \* value returned by query
  steps,              \* collaborators invoked so far by the running query call, in order
  \* ---- LLMHandler object (llm_handler.py) ----
  provider,           \* self.provider
  api_key,            \* self.api_key
  gen,                \* state of the running generate_response call
  gen_args,           \* arguments generate_response was called with
  attempts,           \* attempts made by the running generate_response call
  waits,              \* sleeps made between the attempts of the running call
  gen_result,         \* value returned by generate_response
  \* ---- ingest_pdfs.main ----
  main,               \* position of main
  pdf_files,          \* glob result: sequence of paths
  pdf_content,        \* what each path holds on disk
  documents,          \* local of main
  ids,                \* local of main
  next_pdf,           \* loop index of main
  ilog,               \* calls and returns made by main, in order
  \* ---- traffic_api_to_rag.create_incident_pdfs ----
  rpc,                \* position of create_incident_pdfs
  df,                 \* the table of incident records (argument)
  row,                \* loop index over df
  dir_files,          \* paths existing in the output directory
  out_files,          \* local pdf_files: the list to return
  \* ---- pdf_processor.upload_and_index_pdf ----
  upc,                \* position of the handler
  index_path_set,     \* whether WEB_AI_INDEX_PATH is set in the server's environment
  request,            \* the request being handled
  filepath,           \* local of the handler
  upload_files,       \* paths existing under UPLOAD_FOLDER
  files_before,       \* upload_files when the request arrived
  status,             \* HTTP status of the response
  remove_failed       \* os.remove raised OSError in the finally block

vars == <<client, collection, encoder, llm_handler, store, pipeline, op, pc,
          llm_provider, add_args, query_text, top_k, query_embedding,
          formatted_results, llm_response, configured, response, steps,
          provider, api_key, gen, gen_args, attempts, waits, gen_result,
          main, pdf_files, pdf_content, documents, ids, next_pdf, ilog,
          rpc, df, row, dir_files, out_files,
          upc, index_path_set, request, filepath, upload_files, files_before, status,
          remove_failed>>

pipeVars == <<client, collection, encoder, llm_handler, store, pipeline, op, pc,
              llm_provider, add_args, query_text, top_k, query_embedding,
              formatted_results, llm_response, configured, response, steps,
              provider, api_key, gen, gen_args, attempts, waits, gen_result>>

ingestVars == <<main, pdf_files, pdf_content, documents, ids, next_pdf, ilog>>

renderVars == <<rpc, df, row, dir_files, out_files>>

uploadVars == <<upc, index_path_set, request, filepath, upload_files, files_before, status,
                remove_failed>>

-----------------------------------------------------------------------------
(* Values *)

None == "<None>"

\* Bounds of the model
MaxStore == 2       \* documents the free driver lets the collection grow to
MaxBatch == 2       \* documents per add_documents call of the free driver
MaxPdfs == 2        \* PDF files the ingestion run finds
MaxRows == 3        \* incident records handed to the renderer

Texts == {<<"A">>, <<"A", "B">>}
Queries == {<<"A">>, <<"B", "B">>}
Answers == {"answer", ""}
IdNames == {"x.pdf", "y.pdf"}

-----------------------------------------------------------------------------
(* LLMHandler *)

SUPPORTED_MODELS == {"openai", "anthropic", "ollama"}

ProviderArgs == {"openai", "anthropic", "ollama", "OpenAI", "bogus"}

\* str.lower() on the provider names the model feeds in
Lower(s) ==
  CASE s = "OpenAI" -> "openai"
    [] OTHER -> s

MaxAttempts == 3
WaitMultiplier == 1
WaitMin == 4
WaitMax == 10
DefaultMaxTokens == 500
DefaultTopK == 5

SystemPrompt == "You are a helpful assistant that provides information about traffic incidents."

Max(a, b) == IF a >= b THEN a ELSE b
Min(a, b) == IF a <= b THEN a ELSE b

RECURSIVE Pow2(_)
Pow2(n) == IF n <= 0 THEN 1 ELSE 2 * Pow2(n - 1)

\* variant: the stop test is off by one, allowing a fourth attempt
stop_after_attempt_late(n) == n > MaxAttempts

\* tenacity.stop_after_attempt(3): stop once attempt_number >= 3
stop_after_attempt(n) == n >= MaxAttempts

\* variant: the lower clamp (min=4) is left out
wait_exponential_no_min(n) == Min(WaitMultiplier * Pow2(n - 1), WaitMax)

\* tenacity.wait_exponential(multiplier=1, min=4, max=10) after attempt n
wait_exponential(n) ==
  Max(Max(0, WaitMin), Min(WaitMultiplier * Pow2(n - 1), WaitMax))

\* "\n".join(parts)
RECURSIVE Join(_, _)
Join(sep, parts) ==
  IF parts = <<>> THEN <<>>
  ELSE IF Len(parts) = 1 THEN parts[1]
  ELSE parts[1] \o sep \o Join(sep, Tail(parts))

\* the f-string of generate_response
BuildPrompt(query, context_docs) ==
  LET context_text == Join(<<"\n">>, [i \in 1..Len(context_docs) |-> context_docs[i].text])
  IN <<"Based on ... answer the query.", "Context information:">>
     \o context_text
     \o <<"Query:">> \o query
     \o <<"Please provide ... in the context.">>

_generate_openai(prompt, max_tokens) ==
  [backend |-> "openai", system |-> SystemPrompt, user |-> prompt, max_tokens |-> max_tokens]

_generate_anthropic(prompt, max_tokens) ==
  [backend |-> "anthropic", system |-> SystemPrompt, user |-> prompt, max_tokens |-> max_tokens]

_generate_ollama(prompt, max_tokens) ==
  [backend |-> "ollama", system |-> SystemPrompt, user |-> prompt, max_tokens |-> max_tokens]

\* variant: the anthropic branch calls the openai generator
DispatchWrongBackend(p, prompt, max_tokens) ==
  IF p = "openai" THEN <<_generate_openai(prompt, max_tokens)>>
  ELSE IF p = "anthropic" THEN <<_generate_openai(prompt, max_tokens)>>
  ELSE IF p = "ollama" THEN <<_generate_ollama(prompt, max_tokens)>>
  ELSE <<>>

\* the if/elif chain of generate_response: the backend requests one attempt sends
Dispatch(p, prompt, max_tokens) ==
  IF p = "openai" THEN <<_generate_openai(prompt, max_tokens)>>
  ELSE IF p = "anthropic" THEN <<_generate_anthropic(prompt, max_tokens)>>
  ELSE IF p = "ollama" THEN <<_generate_ollama(prompt, max_tokens)>>
  ELSE <<>>

\* is_configured, given whether the provider's endpoint answers
is_configured(remote_ok) ==
  IF provider = "openai" THEN remote_ok
  ELSE IF provider = "anthropic" THEN api_key # None /\ api_key # ""
  ELSE IF provider = "ollama" THEN remote_ok
  ELSE FALSE

-----------------------------------------------------------------------------
(* Encoder and vector collection (external libraries, as the pipeline uses them) *)

Code(ch) == IF ch = "A" THEN 1 ELSE 3

RECURSIVE SumCodes(_)
SumCodes(text) == IF text = <<>> THEN 0 ELSE Code(Head(text)) + SumCodes(Tail(text))

\* encoder.encode(text).tolist(): a deterministic vector for each text
Encode(text) == <<SumCodes(text), Len(text)>>

\* squared L2 distance, chroma's default space
Distance(a, b) == (a[1] - b[1]) * (a[1] - b[1]) + (a[2] - b[2]) * (a[2] - b[2])

RemoveAt(s, i) == [j \in 1..(Len(s) - 1) |-> IF j < i THEN s[j] ELSE s[j + 1]]

\* the n nearest records of items to query embedding qe, nearest first
RECURSIVE Nearest(_, _, _)
Nearest(items, qe, n) ==
  IF n <= 0 \/ items = <<>> THEN <<>>
  ELSE LET best == CHOOSE i \in 1..Len(items) :
                     \A j \in 1..Len(items) :
                       \/ Distance(items[i].embedding, qe) < Distance(items[j].embedding, qe)
                       \/ /\ Distance(items[i].embedding, qe) = Distance(items[j].embedding, qe)
                          /\ i <= j
       IN <<items[best]>> \o Nearest(RemoveAt(items, best), qe, n - 1)

\* collection.query(query_embeddings=[qe], n_results=n): one result list per query embedding
CollectionQuery(items, qe, n) ==
  LET hit == Nearest(items, qe, n)
  IN [ids       |-> <<[i \in 1..Len(hit) |-> hit[i].id]>>,
      documents |-> <<[i \in 1..Len(hit) |-> hit[i].document]>>,
      distances |-> <<[i \in 1..Len(hit) |-> Distance(hit[i].embedding, qe)]>>]

\* variant: the formatting loop reads every id from the first result position
FormatResultsFirstId(results) ==
  [i \in 1..Len(results.documents[1]) |->
     [text  |-> results.documents[1][i],
      score |-> results.distances[1][i],
      id    |-> results.ids[1][1]]]

\* the "Format results" loop of query
FormatResults(results) ==
  [i \in 1..Len(results.documents[1]) |->
     [text  |-> results.documents[1][i],
      score |-> results.distances[1][i],
      id    |-> results.ids[1][i]]]

StoredIds(items) == {items[i].id : i \in 1..Len(items)}

\* ids generated by add_documents when none are given: doc_0, doc_1, ...
DocId(i) == "doc_" \o ToString(i)

GeneratedIds(n) == [i \in 1..n |-> DocId(i - 1)]

\* collection.add(documents, embeddings, ids) on a collection holding items:
\* records whose id is already stored are not added again
RECURSIVE CollectionAdd(_, _, _)
CollectionAdd(items, docs, idlist) ==
  IF docs = <<>> THEN items
  ELSE LET rec == [id |-> Head(idlist), document |-> Head(docs), embedding |-> Encode(Head(docs))]
           grown == IF rec.id \in StoredIds(items) THEN items ELSE Append(items, rec)
       IN CollectionAdd(grown, Tail(docs), Tail(idlist))

HasDuplicates(s) == \E i, j \in 1..Len(s) : i < j /\ s[i] = s[j]

-----------------------------------------------------------------------------
(* RAGInferencePipeline *)

FallbackMessage == "Error: Unable to generate LLM response"

NoResponse == [documents |-> <<>>, llm_response |-> None]

NoArgs == [documents |-> <<>>, ids |-> <<>>, has_ids |-> FALSE]

NoGenArgs == [query |-> <<>>, context_docs |-> <<>>]

Idle == pc \in {"returned", "raised"}

\* RAGInferencePipeline(persist_directory, llm_provider=p): __init__ up to the call
\* of _initialize_pipeline
New(p) ==
  /\ pipeline = "unbound" /\ op = "none"
  /\ op' = "init" /\ pc' = "client"
  /\ llm_provider' = p
  /\ client' = None /\ collection' = None /\ encoder' = None /\ llm_handler' = None
  /\ UNCHANGED <<store, pipeline, add_args, query_text, top_k, query_embedding,
                 formatted_results, llm_response, configured, response, steps,
                 provider, api_key, gen, gen_args, attempts, waits, gen_result>>

\* an exception inside _initialize_pipeline is logged and raised again
InitRaise ==
  /\ pc' = "raised" /\ pipeline' = "failed"

\* a step inside a pipeline operation touches nothing of its callers
StepFrame == UNCHANGED <<ingestVars, renderVars, uploadVars>>

InitFrame ==
  UNCHANGED <<store, op, llm_provider, add_args, query_text, top_k, query_embedding,
              formatted_results, llm_response, configured, response, steps,
              gen, gen_args, attempts, waits, gen_result>>

\* self.client = chromadb.Client()
InitClient ==
  /\ op = "init" /\ pc = "client"
  /\ \/ client' = "Client" /\ pc' = "collection" /\ UNCHANGED pipeline
     \/ InitRaise /\ UNCHANGED client
  /\ UNCHANGED <<collection, encoder, llm_handler, provider, api_key>>
  /\ InitFrame
  /\ StepFrame

\* self.collection = self.client.get_or_create_collection(...)
InitCollection ==
  /\ op = "init" /\ pc = "collection"
  /\ \/ collection' = "Collection" /\ pc' = "encoder" /\ UNCHANGED pipeline
     \/ InitRaise /\ UNCHANGED collection
  /\ UNCHANGED <<client, encoder, llm_handler, provider, api_key>>
  /\ InitFrame
  /\ StepFrame

\* self.encoder = SentenceTransformer('all-MiniLM-L6-v2')
InitEncoder ==
  /\ op = "init" /\ pc = "encoder"
  /\ \/ encoder' = "SentenceTransformer" /\ pc' = "llm" /\ UNCHANGED pipeline
     \/ InitRaise /\ UNCHANGED encoder
  /\ UNCHANGED <<client, collection, llm_handler, provider, api_key>>
  /\ InitFrame
  /\ StepFrame

\* variant: __init__ does not check the provider against SUPPORTED_MODELS, and
\* _initialize_client matches none of its branches for an unknown name
LLMHandlerRaisesUnvalidated(p, key, reachable) ==
  IF Lower(p) = "openai" THEN key = "" \/ ~reachable
  ELSE IF Lower(p) = "anthropic" THEN key = ""
  ELSE IF Lower(p) = "ollama" THEN ~reachable
  ELSE FALSE

\* LLMHandler.__init__(provider=p, ...) in an environment where the provider's
\* API key is key and its endpoint is reachable or not: whether it raises
LLMHandlerRaises(p, key, reachable) ==
  IF Lower(p) \notin SUPPORTED_MODELS THEN TRUE
  ELSE IF Lower(p) = "openai" THEN key = "" \/ ~reachable
  ELSE IF Lower(p) = "anthropic" THEN key = ""
  ELSE ~reachable

\* variant: a failing LLMHandler construction is swallowed and the pipeline is
\* handed out without a handler
InitLLMHandlerSwallows ==
  /\ op = "init" /\ pc = "llm"
  /\ \E key \in {"", "sk-key"}, reachable \in BOOLEAN :
       IF LLMHandlerRaises(llm_provider, key, reachable)
       THEN /\ pc' = "returned" /\ pipeline' = "bound"
            /\ UNCHANGED <<llm_handler, provider, api_key>>
       ELSE /\ llm_handler' = "LLMHandler"
            /\ provider' = Lower(llm_provider)
            /\ api_key' = IF Lower(llm_provider) = "ollama" THEN None ELSE key
            /\ pc' = "returned" /\ pipeline' = "bound"
  /\ UNCHANGED <<client, collection, encoder>>
  /\ InitFrame
  /\ StepFrame

\* self.llm_handler = LLMHandler(provider=self.llm_provider, ...), then
\* _initialize_pipeline and __init__ return
InitLLMHandler ==
  /\ op = "init" /\ pc = "llm"
  /\ \E key \in {"", "sk-key"}, reachable \in BOOLEAN :
       IF LLMHandlerRaises(llm_provider, key, reachable)
       THEN /\ InitRaise
            /\ UNCHANGED <<llm_handler, provider, api_key>>
       ELSE /\ llm_handler' = "LLMHandler"
            /\ provider' = Lower(llm_provider)
            /\ api_key' = IF Lower(llm_provider) = "ollama" THEN None ELSE key
            /\ pc' = "returned" /\ pipeline' = "bound"
  /\ UNCHANGED <<client, collection, encoder>>
  /\ InitFrame
  /\ StepFrame

-----------------------------------------------------------------------------
(* add_documents *)

OpFrame ==
  UNCHANGED <<client, collection, encoder, llm_handler, pipeline, llm_provider,
              provider, api_key>>

QueryLocalsFrame ==
  UNCHANGED <<query_text, top_k, query_embedding, formatted_results, llm_response,
              configured, response, steps, gen, gen_args, attempts, waits, gen_result>>

\* a caller invokes add_documents(docs, idlist) (ids=None when ~has_ids)
CallAdd(docs, idlist, has_ids) ==
  /\ pipeline = "bound" /\ Idle
  /\ op' = "add" /\ pc' = "encode"
  /\ add_args' = [documents |-> docs, ids |-> idlist, has_ids |-> has_ids]
  /\ UNCHANGED store
  /\ OpFrame /\ QueryLocalsFrame

\* embeddings = self.encoder.encode(documents).tolist()
AddEncode ==
  /\ op = "add" /\ pc = "encode"
  /\ pc' \in {"collection.add", "raised"}
  /\ UNCHANGED <<store, op, add_args>>
  /\ OpFrame /\ QueryLocalsFrame
  /\ StepFrame

\* ids default, then self.collection.add(documents, embeddings, ids)
AddToCollection ==
  /\ op = "add" /\ pc = "collection.add"
  /\ LET idlist == IF add_args.has_ids THEN add_args.ids
                   ELSE GeneratedIds(Len(add_args.documents))
     IN \/ /\ ~HasDuplicates(idlist)
           /\ Len(idlist) = Len(add_args.documents)
           /\ store' = CollectionAdd(store, add_args.documents, idlist)
           /\ pc' = "returned"
        \/ /\ pc' = "raised"
           /\ UNCHANGED store
  /\ UNCHANGED <<op, add_args>>
  /\ OpFrame /\ QueryLocalsFrame
  /\ StepFrame

-----------------------------------------------------------------------------
(* query and generate_response *)

\* a caller invokes query(q, k)
CallQuery(q, k) ==
  /\ pipeline = "bound" /\ Idle
  /\ op' = "query" /\ pc' = "encode"
  /\ query_text' = q /\ top_k' = k
  /\ query_embedding' = <<>> /\ formatted_results' = <<>>
  /\ llm_response' = None /\ configured' = "unknown" /\ response' = NoResponse /\ steps' = <<>>
  /\ gen' = "idle" /\ gen_args' = NoGenArgs /\ attempts' = <<>> /\ waits' = <<>>
  /\ gen_result' = None
  /\ UNCHANGED <<store, add_args>>
  /\ OpFrame

\* variant: after encoding, query goes to the LLM without querying the collection
QueryEncodeSkipsRetrieval ==
  /\ op = "query" /\ pc = "encode"
  /\ steps' = Append(steps, "encode")
  /\ \/ query_embedding' = Encode(query_text) /\ pc' = "check"
     \/ pc' = "raised" /\ UNCHANGED query_embedding
  /\ UNCHANGED <<store, op, add_args, query_text, top_k, formatted_results, llm_response,
                 response, gen, gen_args, attempts, waits, gen_result>>
  /\ UNCHANGED configured
  /\ OpFrame
  /\ StepFrame

\* query_embedding = self.encoder.encode(query_text).tolist()
QueryEncode ==
  /\ op = "query" /\ pc = "encode"
  /\ steps' = Append(steps, "encode")
  /\ \/ query_embedding' = Encode(query_text) /\ pc' = "retrieve"
     \/ pc' = "raised" /\ UNCHANGED query_embedding
  /\ UNCHANGED <<store, op, add_args, query_text, top_k, formatted_results, llm_response,
                 response, gen, gen_args, attempts, waits, gen_result>>
  /\ UNCHANGED configured
  /\ OpFrame
  /\ StepFrame

\* variant: query also adds the query text to the collection
QueryCollectionStoresQuery ==
  /\ op = "query" /\ pc = "retrieve"
  /\ steps' = Append(steps, "collection.query")
  /\ \/ /\ formatted_results' = FormatResults(CollectionQuery(store, query_embedding, top_k))
        /\ store' = CollectionAdd(store, <<query_text>>, <<"query">>)
        /\ pc' = "check"
     \/ pc' = "raised" /\ UNCHANGED <<formatted_results, store>>
  /\ UNCHANGED <<op, add_args, query_text, top_k, query_embedding, llm_response,
                 response, gen, gen_args, attempts, waits, gen_result>>
  /\ UNCHANGED configured
  /\ OpFrame
  /\ StepFrame

\* results = self.collection.query(...), then the formatting loop
QueryCollection ==
  /\ op = "query" /\ pc = "retrieve"
  /\ steps' = Append(steps, "collection.query")
  /\ \/ /\ formatted_results' = FormatResults(CollectionQuery(store, query_embedding, top_k))
        /\ pc' = "check"
     \/ pc' = "raised" /\ UNCHANGED formatted_results
  /\ UNCHANGED <<store, op, add_args, query_text, top_k, query_embedding, llm_response,
                 response, gen, gen_args, attempts, waits, gen_result>>
  /\ UNCHANGED configured
  /\ OpFrame
  /\ StepFrame

\* variant: generate_response is called whatever is_configured() answered
QueryCheckConfiguredIgnored ==
  /\ op = "query" /\ pc = "check"
  /\ llm_response' = None
  /\ \E remote_ok \in BOOLEAN :
       /\ configured' = IF llm_handler # None /\ is_configured(remote_ok) THEN "yes" ELSE "no"
       /\ steps' = steps \o <<"is_configured", "generate_response">>
       /\ pc' = "generate" /\ gen' = "call"
       /\ gen_args' = [query |-> query_text, context_docs |-> formatted_results]
  /\ UNCHANGED <<store, op, add_args, query_text, top_k, query_embedding, formatted_results,
                 response, attempts, waits, gen_result>>
  /\ OpFrame
  /\ StepFrame

\* llm_response = None; if self.llm_handler and self.llm_handler.is_configured():
\*     generate_response(query_text, formatted_results) is called
QueryCheckConfigured ==
  /\ op = "query" /\ pc = "check"
  /\ llm_response' = None
  /\ \E remote_ok \in BOOLEAN :
       IF llm_handler # None /\ is_configured(remote_ok)
       THEN /\ configured' = "yes"
            /\ steps' = steps \o <<"is_configured", "generate_response">>
            /\ pc' = "generate" /\ gen' = "call"
            /\ gen_args' = [query |-> query_text, context_docs |-> formatted_results]
       ELSE /\ configured' = "no"
            /\ steps' = IF llm_handler # None THEN Append(steps, "is_configured") ELSE steps
            /\ pc' = "respond"
            /\ UNCHANGED <<gen, gen_args>>
  /\ UNCHANGED <<store, op, add_args, query_text, top_k, query_embedding, formatted_results,
                 response, attempts, waits, gen_result>>
  /\ OpFrame
  /\ StepFrame

\* one attempt of generate_response under @retry: the prompt is built, the backend
\* of self.provider is invoked and returns or raises; on a raise tenacity stops
\* (RetryError) or goes to sleep
GenAttempt ==
  /\ op = "query" /\ pc = "generate" /\ gen = "call"
  /\ LET prompt == BuildPrompt(gen_args.query, gen_args.context_docs)
         sent == Dispatch(provider, prompt, DefaultMaxTokens)
     IN \/ /\ \E answer \in Answers :
                gen_result' = IF sent = <<>> THEN None ELSE answer
           /\ attempts' = Append(attempts, [requests |-> sent, outcome |-> "ok"])
           /\ gen' = "returned"
        \/ /\ sent # <<>>
           /\ attempts' = Append(attempts, [requests |-> sent, outcome |-> "raise"])
           /\ gen' = IF stop_after_attempt(Len(attempts) + 1) THEN "raised" ELSE "sleep"
           /\ UNCHANGED gen_result
  /\ UNCHANGED <<store, op, pc, add_args, query_text, top_k, query_embedding,
                 formatted_results, llm_response, configured, response, steps, gen_args, waits>>
  /\ OpFrame
  /\ StepFrame

\* tenacity sleeps wait_exponential(...) seconds, then the next attempt starts
GenSleep ==
  /\ op = "query" /\ pc = "generate" /\ gen = "sleep"
  /\ waits' = Append(waits, wait_exponential(Len(attempts)))
  /\ gen' = "call"
  /\ UNCHANGED <<store, op, pc, add_args, query_text, top_k, query_embedding,
                 formatted_results, llm_response, configured, response, steps, gen_args, attempts,
                 gen_result>>
  /\ OpFrame
  /\ StepFrame

\* variant: query has no except branch around generate_response
QueryCatchReraises ==
  /\ op = "query" /\ pc = "generate" /\ gen \in {"returned", "raised"}
  /\ llm_response' = IF gen = "returned" THEN gen_result ELSE llm_response
  /\ pc' = IF gen = "returned" THEN "respond" ELSE "raised"
  /\ UNCHANGED <<store, op, add_args, query_text, top_k, query_embedding,
                 formatted_results, response, steps, gen, gen_args, attempts, waits,
                 gen_result>>
  /\ UNCHANGED configured
  /\ OpFrame
  /\ StepFrame

\* generate_response came back to query: its value is kept, or the except branch
\* stores the fallback message
QueryCatch ==
  /\ op = "query" /\ pc = "generate" /\ gen \in {"returned", "raised"}
  /\ llm_response' = IF gen = "returned" THEN gen_result ELSE FallbackMessage
  /\ pc' = "respond"
  /\ UNCHANGED <<store, op, add_args, query_text, top_k, query_embedding,
                 formatted_results, response, steps, gen, gen_args, attempts, waits,
                 gen_result>>
  /\ UNCHANGED configured
  /\ OpFrame
  /\ StepFrame

\* response = {'documents': ..., 'llm_response': ...}; return response
QueryReturn ==
  /\ op = "query" /\ pc = "respond"
  /\ response' = [documents |-> formatted_results, llm_response |-> llm_response]
  /\ pc' = "returned"
  /\ UNCHANGED <<store, op, add_args, query_text, top_k, query_embedding,
                 formatted_results, llm_response, steps, gen, gen_args, attempts, waits,
                 gen_result>>
  /\ UNCHANGED configured
  /\ OpFrame
  /\ StepFrame

-----------------------------------------------------------------------------
(* ingest_pdfs.py *)

PDF_DIR == "traffic_pdfs"

PdfName(i) == "incident_" \o ToString(i) \o ".pdf"

\* os.path.join(pdf_dir, name)
PathJoin(dir, name) == <<dir, name>>

\* os.path.basename(path)
Basename(path) == path[Len(path)]

PdfPaths == {PathJoin(PDF_DIR, PdfName(i)) : i \in 1..MaxPdfs}

Page(text) == [ok |-> TRUE, text |-> text]
BadPage == [ok |-> FALSE, text |-> <<>>]

\* what a path can hold: a file fitz cannot open, or a document of pages, one of
\* which may fail in get_text()
PdfContents ==
  { [opens |-> FALSE, pages |-> <<>>],
    [opens |-> TRUE, pages |-> <<>>],
    [opens |-> TRUE, pages |-> <<Page(<<>>)>>],
    [opens |-> TRUE, pages |-> <<Page(<<"A">>), Page(<<"B">>)>>],
    [opens |-> TRUE, pages |-> <<Page(<<"B">>), Page(<<>>), Page(<<"A">>)>>],
    [opens |-> TRUE, pages |-> <<Page(<<"A">>), BadPage>>] }

\* the loop "for page in doc: text += page.get_text()": the text so far, or a raise
RECURSIVE PagesText(_, _)
PagesText(pages, text) ==
  IF pages = <<>> THEN [kind |-> "text", text |-> text]
  ELSE IF ~Head(pages).ok THEN [kind |-> "raise", text |-> <<>>]
  ELSE PagesText(Tail(pages), text \o Head(pages).text)

\* variant: only fitz.open is guarded; a failing page raises to the caller
extract_text_unguarded(content) ==
  IF ~content.opens THEN [kind |-> "none", text |-> <<>>]
  ELSE PagesText(content.pages, <<>>)

\* extract_text_from_pdf: every exception of the body is caught and None returned
extract_text_from_pdf(content) ==
  LET body == IF ~content.opens THEN [kind |-> "raise", text |-> <<>>]
              ELSE PagesText(content.pages, <<>>)
  IN IF body.kind = "raise" THEN [kind |-> "none", text |-> <<>>] ELSE body

\* Python truth value of the extractor's result in "if text:"
Truthy(r) == r.kind = "text" /\ r.text # <<>>

INGEST_QUERY == <<"A", "B">>

MainFrame == UNCHANGED <<pdf_files, pdf_content, renderVars, uploadVars>>

\* rag_pipeline = RAGInferencePipeline(persist_dir): the constructor is entered
MainStart ==
  /\ main = "start"
  /\ New("openai")
  /\ main' = "constructing"
  /\ ilog' = Append(ilog, "construct")
  /\ UNCHANGED <<documents, ids, next_pdf>>
  /\ MainFrame

\* the constructor returned; pdf_files = glob.glob(...); documents = []; ids = []
MainGlob ==
  /\ main = "constructing" /\ op = "init" /\ pc = "returned"
  /\ main' = "loop"
  /\ documents' = <<>> /\ ids' = <<>> /\ next_pdf' = 1
  /\ UNCHANGED <<ilog>>
  /\ UNCHANGED pipeVars
  /\ MainFrame

\* one iteration of "for pdf_file in pdf_files"
MainExtract ==
  /\ main = "loop" /\ next_pdf <= Len(pdf_files)
  /\ LET pdf_file == pdf_files[next_pdf]
         text == extract_text_from_pdf(pdf_content[pdf_file])
     IN IF text.kind = "raise"
        THEN /\ main' = "raised"
             /\ UNCHANGED <<documents, ids, next_pdf>>
        ELSE /\ documents' = IF Truthy(text) THEN Append(documents, text.text) ELSE documents
             /\ ids' = IF Truthy(text) THEN Append(ids, Basename(pdf_file)) ELSE ids
             /\ next_pdf' = next_pdf + 1
             /\ UNCHANGED main
  /\ ilog' = Append(ilog, "extract")
  /\ UNCHANGED pipeVars
  /\ MainFrame

\* if documents: rag_pipeline.add_documents(documents, ids) is entered
MainAdd ==
  /\ main = "loop" /\ next_pdf > Len(pdf_files)
  /\ documents # <<>>
  /\ CallAdd(documents, ids, TRUE)
  /\ main' = "adding"
  /\ ilog' = Append(ilog, "add_documents")
  /\ UNCHANGED <<documents, ids, next_pdf>>
  /\ MainFrame

\* else: logger.warning("No documents were processed successfully")
MainNoDocuments ==
  /\ main = "loop" /\ next_pdf > Len(pdf_files)
  /\ documents = <<>>
  /\ main' = "done"
  /\ UNCHANGED <<documents, ids, next_pdf, ilog>>
  /\ UNCHANGED pipeVars
  /\ MainFrame

\* variant: main queries after add_documents whether it returned or raised
MainQueryAfterFailedAdd ==
  /\ main = "adding" /\ op = "add" /\ Idle
  /\ CallQuery(INGEST_QUERY, DefaultTopK)
  /\ main' = "querying"
  /\ ilog' = Append(ilog, "query")
  /\ UNCHANGED <<documents, ids, next_pdf>>
  /\ MainFrame

\* add_documents returned; results = rag_pipeline.query(query) is entered
MainQuery ==
  /\ main = "adding" /\ op = "add" /\ pc = "returned"
  /\ CallQuery(INGEST_QUERY, DefaultTopK)
  /\ main' = "querying"
  /\ ilog' = Append(ilog, "query")
  /\ UNCHANGED <<documents, ids, next_pdf>>
  /\ MainFrame

\* query returned; the results are printed
MainPrint ==
  /\ main = "querying" /\ op = "query" /\ pc = "returned"
  /\ main' = "done"
  /\ UNCHANGED <<documents, ids, next_pdf, ilog>>
  /\ UNCHANGED pipeVars
  /\ MainFrame

\* the constructor, add_documents or query raised: main has no handler
MainRaise ==
  /\ main \in {"constructing", "adding", "querying"} /\ pc = "raised"
  /\ main' = "raised"
  /\ UNCHANGED <<documents, ids, next_pdf, ilog>>
  /\ UNCHANGED pipeVars
  /\ MainFrame

-----------------------------------------------------------------------------
(* traffic_api_to_rag.create_incident_pdfs *)

PDF_OUTPUT_DIR == "traffic_pdfs"

ReportIds == {"101", "102", "103"}

\* a table of incident records: with a traffic_report_id column (one value per
\* row) or without it; the index labels are 0, 1, ...
Tables ==
  {[has_id |-> TRUE, rows |-> r] : r \in UNION {[1..m -> ReportIds] : m \in 0..MaxRows}}
  \cup {[has_id |-> FALSE, rows |-> [i \in 1..m |-> "N/A"]] : m \in 0..MaxRows}

\* incident.get('traffic_report_id', f"unknown_{idx}") for the row at position i
IncidentId(table, i) ==
  IF table.has_id THEN table.rows[i] ELSE "unknown_" \o ToString(i - 1)

\* f"{output_dir}/incident_{incident_id}.pdf"
IndividualPdfPath(output_dir, incident_id) ==
  output_dir \o "/incident_" \o incident_id \o ".pdf"

\* f"{output_dir}/all_incidents_summary.pdf"
SummaryPdfPath(output_dir) == output_dir \o "/all_incidents_summary.pdf"

RenderFrame == UNCHANGED <<pipeVars, ingestVars, uploadVars>>

\* os.makedirs(output_dir, exist_ok=True); pdf_files = []; the summary is begun
RenderStart ==
  /\ rpc = "start"
  /\ out_files' = <<>> /\ row' = 1
  /\ rpc' = "loop"
  /\ UNCHANGED <<df, dir_files>>
  /\ RenderFrame

\* one iteration of "for idx, incident in df.iterrows()": the incident's PDF is
\* written (creating or overwriting the file at its path) and its path appended,
\* unless FPDF raises
RenderIncident ==
  /\ rpc = "loop" /\ row <= Len(df.rows)
  /\ LET individual_pdf_path == IndividualPdfPath(PDF_OUTPUT_DIR, IncidentId(df, row))
     IN \/ /\ dir_files' = dir_files \cup {individual_pdf_path}
           /\ out_files' = Append(out_files, individual_pdf_path)
           /\ row' = row + 1
           /\ UNCHANGED rpc
        \/ /\ rpc' = "raised"
           /\ UNCHANGED <<dir_files, out_files, row>>
  /\ UNCHANGED df
  /\ RenderFrame

\* the summary is written and its path appended; return pdf_files
RenderSummary ==
  /\ rpc = "loop" /\ row > Len(df.rows)
  /\ LET summary_pdf_path == SummaryPdfPath(PDF_OUTPUT_DIR)
     IN \/ /\ dir_files' = dir_files \cup {summary_pdf_path}
           /\ out_files' = Append(out_files, summary_pdf_path)
           /\ rpc' = "returned"
        \/ /\ rpc' = "raised"
           /\ UNCHANGED <<dir_files, out_files>>
  /\ UNCHANGED <<df, row>>
  /\ RenderFrame

-----------------------------------------------------------------------------
(* pdf_processor.upload_and_index_pdf *)

UPLOAD_FOLDER == "/tmp/pdf_uploads"

\* file names a request can carry: stem and extension ("" is the empty name)
UploadNames ==
  { [stem |-> "", ext |-> ""],
    [stem |-> "a", ext |-> ".pdf"],
    [stem |-> "B", ext |-> ".PDF"],
    [stem |-> "notes", ext |-> ".txt"] }

\* requests: with or without a 'file' part
Requests == {[has_file |-> h, filename |-> f] : h \in BOOLEAN, f \in UploadNames}

NoRequest == [has_file |-> FALSE, filename |-> [stem |-> "", ext |-> ""]]

FileName(f) == f.stem \o f.ext

\* file.filename.lower().endswith('.pdf')
EndsWithPdf(f) ==
  LET lowered == CASE f.ext = ".PDF" -> ".pdf" [] OTHER -> f.ext
  IN lowered = ".pdf"

\* os.path.join(UPLOAD_FOLDER, file.filename)
UploadPath(f) == UPLOAD_FOLDER \o "/" \o FileName(f)

\* the three early returns with status 400
Rejected(r) == ~r.has_file \/ FileName(r.filename) = "" \/ ~EndsWithPdf(r.filename)

UploadFrame == UNCHANGED <<pipeVars, ingestVars, renderVars, index_path_set>>

\* a request arrives: it is rejected with 400, or filepath is computed and the
\* try block entered
UploadReceive ==
  /\ upc \in {"idle", "done"}
  /\ \E r \in Requests :
       /\ request' = r
       /\ IF Rejected(r)
          THEN /\ status' = 400 /\ upc' = "done"
               /\ filepath' = None
          ELSE /\ status' = 0 /\ upc' = "save"
               /\ filepath' = UploadPath(r.filename)
  /\ files_before' = upload_files
  /\ remove_failed' = FALSE
  /\ UNCHANGED upload_files
  /\ UploadFrame

\* file.save(filepath): the file is written, or save raises, before or after
\* creating the file
UploadSave ==
  /\ upc = "save"
  /\ \/ upload_files' = upload_files \cup {filepath} /\ upc' = "extract"
     \/ upload_files' = upload_files \cup {filepath} /\ upc' = "except"
     \/ UNCHANGED upload_files /\ upc' = "except"
  /\ UNCHANGED <<request, filepath, files_before, status, remove_failed>>
  /\ UploadFrame

\* doc = fitz.open(filepath); the page loop; doc.close(): done, or one of them raises
UploadExtract ==
  /\ upc = "extract"
  /\ upc' \in {"index", "except"}
  /\ UNCHANGED <<request, filepath, upload_files, files_before, status, remove_failed>>
  /\ UploadFrame

\* the indexing step: 200 when WEB_AI_INDEX_PATH is set, 500 otherwise
UploadIndex ==
  /\ upc = "index"
  /\ status' = IF index_path_set THEN 200 ELSE 500
  /\ upc' = "finally"
  /\ UNCHANGED <<request, filepath, upload_files, files_before, remove_failed>>
  /\ UploadFrame

\* except Exception: the response is 500
UploadExcept ==
  /\ upc = "except"
  /\ status' = 500
  /\ upc' = "finally"
  /\ UNCHANGED <<request, filepath, upload_files, files_before, remove_failed>>
  /\ UploadFrame

\* variant: the handler has no finally block
UploadFinallyKeepsFile ==
  /\ upc = "finally"
  /\ upc' = "done"
  /\ UNCHANGED <<request, filepath, upload_files, files_before, status, remove_failed>>
  /\ UploadFrame

\* finally: if os.path.exists(filepath): os.remove(filepath), whose OSError is
\* printed and dropped; then the response is sent
UploadFinally ==
  /\ upc = "finally"
  /\ IF filepath \in upload_files
     THEN \/ upload_files' = upload_files \ {filepath} /\ UNCHANGED remove_failed
          \/ remove_failed' = TRUE /\ UNCHANGED upload_files
     ELSE UNCHANGED <<upload_files, remove_failed>>
  /\ upc' = "done"
  /\ UNCHANGED <<request, filepath, files_before, status>>
  /\ UploadFrame

-----------------------------------------------------------------------------
(* Specifications *)

InitPipe ==
  /\ client = None /\ collection = None /\ encoder = None /\ llm_handler = None
  /\ store = <<>>
  /\ pipeline = "unbound" /\ op = "none" /\ pc = "none"
  /\ llm_provider = None
  /\ add_args = NoArgs
  /\ query_text = <<>> /\ top_k = 0 /\ query_embedding = <<>>
  /\ formatted_results = <<>> /\ llm_response = None /\ configured = "unknown" /\ response = NoResponse
  /\ steps = <<>>
  /\ provider = None /\ api_key = None
  /\ gen = "idle" /\ gen_args = NoGenArgs /\ attempts = <<>> /\ waits = <<>>
  /\ gen_result = None

InitNoIngest ==
  /\ main = "off" /\ pdf_files = <<>> /\ pdf_content = <<>>
  /\ documents = <<>> /\ ids = <<>> /\ next_pdf = 1 /\ ilog = <<>>

InitNoRender ==
  /\ rpc = "off" /\ df = [has_id |-> FALSE, rows |-> <<>>] /\ row = 1 /\ dir_files = {} /\ out_files = <<>>

\* sequences of at most n elements of S, and those without repetition
SeqsUpTo(S, n) == UNION {[1..m -> S] : m \in 0..n}

DistinctSeqsUpTo(S, n) == {s \in SeqsUpTo(S, n) : ~HasDuplicates(s)}

IdLists(n) == [1..n -> IdNames]

\* ---- a caller using one pipeline freely ----
InitNoUpload ==
  /\ upc = "off" /\ index_path_set = FALSE /\ request = NoRequest /\ filepath = None
  /\ upload_files = {} /\ files_before = {} /\ status = 0 /\ remove_failed = FALSE

Init == InitPipe /\ InitNoIngest /\ InitNoRender /\ InitNoUpload

CallerNew ==
  /\ \E p \in ProviderArgs : New(p)
  /\ StepFrame

CallerAdd ==
  /\ \E docs \in SeqsUpTo(Texts, MaxBatch) \ {<<>>} :
       /\ Len(store) + Len(docs) <= MaxStore
       /\ \/ CallAdd(docs, <<>>, FALSE)
          \/ \E idlist \in IdLists(Len(docs)) : CallAdd(docs, idlist, TRUE)
  /\ StepFrame

CallerQuery ==
  /\ \E q \in Queries, k \in {1, DefaultTopK} : CallQuery(q, k)
  /\ StepFrame

Next ==
  \/ CallerNew
  \/ CallerAdd
  \/ CallerQuery
  \/ InitClient
  \/ InitCollection
  \/ InitEncoder
  \/ InitLLMHandler
  \/ AddEncode
  \/ AddToCollection
  \/ QueryEncode
  \/ QueryCollection
  \/ QueryCheckConfigured
  \/ GenAttempt
  \/ GenSleep
  \/ QueryCatch
  \/ QueryReturn

Spec == Init /\ [][Next]_vars

\* ---- the ingestion run ----
InitIngest ==
  /\ InitPipe /\ InitNoRender /\ InitNoUpload
  /\ main = "start"
  /\ pdf_files \in DistinctSeqsUpTo(PdfPaths, MaxPdfs)
  /\ pdf_content \in [PdfPaths -> PdfContents]
  /\ documents = <<>> /\ ids = <<>> /\ next_pdf = 1 /\ ilog = <<>>

NextIngest ==
  \/ MainStart
  \/ MainGlob
  \/ MainExtract
  \/ MainAdd
  \/ MainNoDocuments
  \/ MainQuery
  \/ MainPrint
  \/ MainRaise
  \/ InitClient
  \/ InitCollection
  \/ InitEncoder
  \/ InitLLMHandler
  \/ AddEncode
  \/ AddToCollection
  \/ QueryEncode
  \/ QueryCollection
  \/ QueryCheckConfigured
  \/ GenAttempt
  \/ GenSleep
  \/ QueryCatch
  \/ QueryReturn

SpecIngest == InitIngest /\ [][NextIngest]_vars

\* ---- one call of create_incident_pdfs on an empty output directory ----
InitRender ==
  /\ InitPipe /\ InitNoIngest /\ InitNoUpload
  /\ rpc = "start"
  /\ df \in Tables
  /\ row = 1 /\ dir_files = {} /\ out_files = <<>>

NextRender ==
  \/ RenderStart
  \/ RenderIncident
  \/ RenderSummary

SpecRender == InitRender /\ [][NextRender]_vars

\* ---- the upload server handling requests one after another ----
InitUpload ==
  /\ InitPipe /\ InitNoIngest /\ InitNoRender
  /\ upc = "idle"
  /\ index_path_set \in BOOLEAN
  /\ request = NoRequest /\ filepath = None
  /\ upload_files = {} /\ files_before = {} /\ status = 0 /\ remove_failed = FALSE

NextUpload ==
  \/ UploadReceive
  \/ UploadSave
  \/ UploadExtract
  \/ UploadIndex
  \/ UploadExcept
  \/ UploadFinally

SpecUpload == InitUpload /\ [][NextUpload]_vars

-----------------------------------------------------------------------------
(* Properties *)

Range(s) == {s[i] : i \in 1..Len(s)}

AllRaised(as) == \A i \in 1..Len(as) : as[i].outcome = "raise"

\* C1: one generate_response call makes at most three attempts; an attempt is
\* followed by another only if it raised; a successful attempt ends the call with
\* its result; a third raising attempt ends the call by raising, with no value.
C1_AtMostThreeAttempts ==
  /\ Len(attempts) <= 3
  /\ \A i \in 1..Len(attempts) : i < Len(attempts) => attempts[i].outcome = "raise"
  /\ gen = "returned" => attempts # <<>> /\ attempts[Len(attempts)].outcome = "ok"
  /\ gen \in {"call", "sleep"} => Len(attempts) < 3 /\ AllRaised(attempts)
  /\ (Len(attempts) = 3 /\ attempts[3].outcome = "raise") => gen = "raised"
  /\ gen = "raised" => Len(attempts) = 3 /\ AllRaised(attempts) /\ gen_result = None

C1_Witness == gen = "raised" /\ Len(attempts) = 3 /\ pc = "generate"

\* C2: when retrieval succeeded and the handler is configured but
\* generate_response ends in an exception, query does not raise: it returns all
\* retrieved documents with llm_response "Error: Unable to generate LLM response".
C2_FallbackMessage ==
  (op = "query" /\ configured = "yes" /\ gen = "raised") =>
    /\ pc # "raised"
    /\ pc \in {"respond", "returned"} =>
         llm_response = "Error: Unable to generate LLM response"
    /\ pc = "returned" =>
         /\ response.llm_response = "Error: Unable to generate LLM response"
         /\ response.documents = formatted_results
         /\ Len(response.documents) = Min(top_k, Len(store))

C2_Witness ==
  /\ op = "query" /\ pc = "returned" /\ configured = "yes" /\ gen = "raised"
  /\ Len(response.documents) = 2

\* C3: one wait lies between two consecutive attempts of a call; every wait is
\* at least 4 and at most 10 seconds; a later wait is never shorter than an
\* earlier one.
C3_Backoff ==
  /\ \A i \in 1..Len(waits) : 4 <= waits[i] /\ waits[i] <= 10
  /\ \A i, j \in 1..Len(waits) : i < j => waits[i] <= waits[j]
  /\ Len(waits) = IF gen = "call" THEN Len(attempts)
                  ELSE IF attempts = <<>> THEN 0
                  ELSE Len(attempts) - 1

C3_Witness == Len(waits) = 2 /\ Len(attempts) = 3 /\ gen = "returned"

\* position before the first token of the i-th context text inside the joined context
RECURSIVE ContextOffset(_, _)
ContextOffset(docs, i) ==
  IF i <= 1 THEN 0 ELSE ContextOffset(docs, i - 1) + Len(docs[i - 1].text) + 1

\* user is: two heading lines, the docs' texts in list order with a newline
\* between neighbours, "Query:", the query, one closing line
PromptHolds(user, query, docs) ==
  LET n == Len(docs)
      ctxLen == IF n = 0 THEN 0 ELSE ContextOffset(docs, n) + Len(docs[n].text)
      ctx == SubSeq(user, 3, 2 + ctxLen)
  IN /\ Len(user) = 2 + ctxLen + 1 + Len(query) + 1
     /\ \A i \in 1..n :
          /\ \A k \in 1..Len(docs[i].text) : ctx[ContextOffset(docs, i) + k] = docs[i].text[k]
          /\ i > 1 => ctx[ContextOffset(docs, i)] = "\n"
     /\ user[3 + ctxLen] = "Query:"
     /\ SubSeq(user, 4 + ctxLen, 3 + ctxLen + Len(query)) = query

\* C4: every attempt invokes exactly one backend generator, the one of the
\* provider fixed at construction, and hands it the same prompt whichever the
\* provider: the context texts joined by newline in list order, then the query.
C4_Interchangeable ==
  \A i \in 1..Len(attempts) :
    /\ Len(attempts[i].requests) = 1
    /\ provider \in {"openai", "anthropic", "ollama"}
    /\ attempts[i].requests[1].backend = provider
    /\ PromptHolds(attempts[i].requests[1].user, query_text, formatted_results)

C4_Witness ==
  /\ Len(attempts) = 2 /\ provider = "anthropic"
  /\ Len(formatted_results) = 2
  /\ attempts[2].requests[1].backend = "anthropic"

QueryOrder == <<"encode", "collection.query", "is_configured", "generate_response">>

\* C5: inside one query call the steps come in the order encode, collection
\* query, is_configured, generate_response; the handler is invoked only after
\* retrieval, with exactly the documents query returns; if encoding or retrieval
\* raises, query raises and the handler is not invoked.
C5_QueryOrder ==
  op = "query" =>
    /\ Len(steps) <= 4 /\ steps = SubSeq(QueryOrder, 1, Len(steps))
    /\ attempts # <<>> => gen # "idle"
    /\ gen # "idle" =>
         /\ steps = QueryOrder
         /\ gen_args.query = query_text
         /\ gen_args.context_docs = formatted_results
         /\ Len(formatted_results) = Min(top_k, Len(store))
         /\ pc = "returned" => response.documents = gen_args.context_docs
    /\ pc = "raised" =>
         /\ Len(steps) \in {1, 2}
         /\ gen = "idle" /\ attempts = <<>> /\ response = NoResponse

C5_Witness ==
  /\ op = "query" /\ pc = "returned" /\ gen = "returned"
  /\ Len(response.documents) = 2 /\ Len(attempts) = 1

Count(s, x) == Cardinality({i \in 1..Len(s) : s[i] = x})

\* C6: in the ingestion run every PDF is extracted before add_documents is
\* called, query is issued only after add_documents returned successfully, and
\* when no PDF yields text neither add_documents nor query is called.
C6_IngestOrder ==
  /\ \A i \in 1..Len(ilog) :
       /\ ilog[i] = "add_documents" =>
            /\ Count(SubSeq(ilog, 1, i), "extract") = Len(pdf_files)
            /\ \A j \in i..Len(ilog) : ilog[j] # "extract"
       /\ ilog[i] = "query" => i > 1 /\ ilog[i - 1] = "add_documents"
  /\ op \in {"add", "query"} => next_pdf > Len(pdf_files) /\ documents # <<>>
  /\ op = "query" =>
       /\ "add_documents" \in Range(ilog)
       /\ Len(store) = Len(documents)
       /\ \A i \in 1..Len(store) : store[i].id = ids[i] /\ store[i].document = documents[i]
  /\ (main \in {"done", "raised"} /\ documents = <<>>) =>
       /\ op = "init"
       /\ "add_documents" \notin Range(ilog) /\ "query" \notin Range(ilog)

C6_Witness ==
  /\ main = "done" /\ op = "query" /\ Len(store) = 2
  /\ ilog = <<"construct", "extract", "extract", "add_documents", "query">>

\* C7: for a table of n incident records, after create_incident_pdfs returns the
\* output directory holds n distinct per-incident files and one summary file, and
\* the returned list has n+1 paths, each naming a different file, the summary last.
C7_OnePdfPerIncident ==
  rpc = "returned" =>
    /\ Len(out_files) = Len(df.rows) + 1
    /\ Cardinality(Range(out_files)) = Len(df.rows) + 1
    /\ Cardinality(dir_files) = Len(df.rows) + 1
    /\ out_files[Len(out_files)] = "traffic_pdfs/all_incidents_summary.pdf"

\* C8: a pipeline whose constructor returned has a client, a collection, an
\* encoder and an llm_handler; if one of them fails to initialise the
\* constructor raises; add_documents and query run only on such a pipeline.
C8_FullyInitialised ==
  /\ pipeline = "bound" =>
       client # None /\ collection # None /\ encoder # None /\ llm_handler # None
  /\ (op = "init" /\ pc = "returned") => pipeline = "bound"
  /\ (client = None \/ collection = None \/ encoder = None \/ llm_handler = None) =>
       /\ op \in {"none", "init"}
       /\ pc # "returned"
  /\ pipeline = "failed" <=> (op = "init" /\ pc = "raised")
  /\ op \in {"add", "query"} => pipeline = "bound"

C8_Witness ==
  /\ pipeline = "bound" /\ op = "add" /\ pc = "returned" /\ store # <<>>
  /\ llm_handler = "LLMHandler" /\ provider = "ollama"

\* the page texts of a document of at most three pages, in page order
PagesInOrder(pages) ==
  (IF Len(pages) >= 1 THEN pages[1].text ELSE <<>>)
  \o (IF Len(pages) >= 2 THEN pages[2].text ELSE <<>>)
  \o (IF Len(pages) >= 3 THEN pages[3].text ELSE <<>>)

Readable(content) ==
  content.opens /\ \A k \in 1..Len(content.pages) : content.pages[k].ok

\* C9: the extractor never raises (main fails only through the pipeline); it
\* yields the page texts in page order or None; the loop skips every PDF whose
\* result is None or empty, so documents and ids have equal length and ids[i] is
\* the basename of the PDF whose text is documents[i].
C9_ExtractorNeverRaises ==
  /\ main = "raised" => pc = "raised"
  /\ Len(documents) = Len(ids)
  /\ \A i \in 1..Len(ids) :
       \E j \in 1..(next_pdf - 1) :
         /\ ids[i] = pdf_files[j][2]
         /\ Readable(pdf_content[pdf_files[j]])
         /\ documents[i] = PagesInOrder(pdf_content[pdf_files[j]].pages)
         /\ documents[i] # <<>>
  /\ \A j \in 1..(next_pdf - 1) :
       (pdf_files[j][2] \in Range(ids)) <=>
         /\ Readable(pdf_content[pdf_files[j]])
         /\ PagesInOrder(pdf_content[pdf_files[j]].pages) # <<>>

C9_Witness ==
  /\ main = "loop" /\ next_pdf = 3 /\ Len(pdf_files) = 2
  /\ ~Readable(pdf_content[pdf_files[1]]) /\ pdf_content[pdf_files[1]].opens
  /\ ids = <<pdf_files[2][2]>>
  /\ documents = <<<<"B", "A">>>>

\* C10: when is_configured() answers False during a query, generate_response is
\* not called (no attempt, no wait) and query returns the retrieved documents
\* with llm_response None, not the fallback message.
C10_NotConfigured ==
  (op = "query" /\ configured = "no") =>
    /\ gen = "idle" /\ attempts = <<>> /\ waits = <<>>
    /\ "generate_response" \notin Range(steps)
    /\ pc \in {"respond", "returned"}
    /\ llm_response = None
    /\ pc = "returned" =>
         /\ response.llm_response = None
         /\ response.llm_response # "Error: Unable to generate LLM response"
         /\ response.documents = formatted_results
         /\ Len(response.documents) = Min(top_k, Len(store))

C10_Witness ==
  /\ op = "query" /\ pc = "returned" /\ configured = "no"
  /\ Len(response.documents) = 1 /\ steps = <<"encode", "collection.query", "is_configured">>

\* C11: query(query_text, top_k) returns at most top_k documents and no more than
\* the collection holds; every returned entry carries the text, score and id of
\* one stored document; no stored document appears twice in one result.
C11_ResultEntries ==
  (op = "query" /\ pc = "returned") =>
    /\ Len(response.documents) <= top_k
    /\ Len(response.documents) <= Len(store)
    /\ \A i \in 1..Len(response.documents) :
         \E j \in 1..Len(store) :
           /\ response.documents[i].id = store[j].id
           /\ response.documents[i].text = store[j].document
           /\ response.documents[i].score =
                Distance(store[j].embedding, Encode(query_text))
    /\ \A i, k \in 1..Len(response.documents) :
         i # k => response.documents[i].id # response.documents[k].id

C11_Witness ==
  /\ op = "query" /\ pc = "returned" /\ top_k = 5
  /\ Len(store) = 2 /\ store[1].document # store[2].document
  /\ Len(response.documents) = 2
  /\ response.documents[1].id = store[2].id

\* C12: LLMHandler construction compares the provider name case-insensitively;
\* a name outside openai, anthropic, ollama raises without initialising a client;
\* so every constructed handler has one of these providers, and generate_response
\* always reaches one backend and never falls through returning None.
C12_ProviderValidated ==
  /\ llm_handler # None =>
       /\ provider \in {"openai", "anthropic", "ollama"}
       /\ llm_provider \in {"openai", "OpenAI"} <=> provider = "openai"
       /\ llm_provider = "anthropic" <=> provider = "anthropic"
       /\ llm_provider = "ollama" <=> provider = "ollama"
  /\ (llm_provider = "bogus" /\ op = "init" /\ pc \in {"returned", "raised"}) =>
       /\ pc = "raised" /\ pipeline = "failed"
       /\ llm_handler = None /\ provider = None /\ api_key = None
  /\ pipeline = "bound" => llm_provider # "bogus"
  /\ \A i \in 1..Len(attempts) :
       /\ Len(attempts[i].requests) = 1
       /\ attempts[i].requests[1].backend \in {"openai", "anthropic", "ollama"}
  /\ gen = "returned" => gen_result # None

C12_Witness ==
  /\ llm_provider = "OpenAI" /\ provider = "openai" /\ llm_handler = "LLMHandler"
  /\ gen = "returned" /\ gen_result = "answer"
  /\ attempts[1].requests[1].backend = "openai"

\* C14: query is read-only on the vector store: no step of a query call, however
\* the call ends, changes the stored ids, documents or embeddings; the collection
\* changes only inside add_documents.
C14_QueryReadOnly ==
  [][/\ (op = "query" \/ op' = "query") => store' = store
     /\ store' # store => (op = "add" /\ op' = "add" /\ pc = "collection.add")]_vars

C14_Witness ==
  /\ op = "query" /\ pc = "raised" /\ steps = <<"encode", "collection.query">>
  /\ Len(store) = 2 /\ store[1].id = "doc_0" /\ store[2].id = "x.pdf"

\* C13 as stated: after the handler has finished a request with 200 or 500, the
\* file it saved under the upload folder no longer exists; a request rejected
\* with 400 creates no file.
C13_AlwaysCleanedUp ==
  /\ (upc = "done" /\ status \in {200, 500}) => filepath \notin upload_files
  /\ (upc = "done" /\ status = 400) => upload_files = files_before

\* C13 (amended): after the handler has finished a request with 200 or 500, the
\* file it saved no longer exists unless os.remove raised OSError in the finally
\* block (the response is sent all the same); a request rejected with 400
\* creates no file and removes none.
C13_CleanedUpUnlessRemoveFails ==
  /\ (upc = "done" /\ status \in {200, 500} /\ ~remove_failed) =>
       filepath \notin upload_files
  /\ (upc = "done" /\ remove_failed) =>
       status \in {200, 500} /\ filepath \in upload_files
  /\ (upc = "done" /\ status = 400) =>
       upload_files = files_before /\ filepath = None
  /\ upc = "done" => status \in {200, 400, 500}

C13_Witness ==
  /\ upc = "done" /\ status = 500 /\ ~index_path_set /\ ~remove_failed
  /\ request.filename.ext = ".PDF"
  /\ filepath = "/tmp/pdf_uploads/B.PDF" /\ upload_files = {}

====
